---- MODULE Spec2Model ----
(***************************************************************************)
(* ISBN Bibliographer: the identifier codec (modules/isbn_validator.py),   *)
(* the MetadataSource client (modules/api_manager.py), the record          *)
(* formatter (modules/bibliography_formatter.py), the record store         *)
(* (modules/excel_processor.py) and the resolution pipeline and the two    *)
(* run modes of main.py.                                                   *)
(*                                                                         *)
(* A Python str is a sequence of one-character strings; the literal        *)
(* messages of the program are kept as one chunk each.  A Python value     *)
(* that may be None is tagged: None, Str(chars), Num(n), List(seq),        *)
(* Dict(function).                                                         *)
(***************************************************************************)
EXTENDS Integers, Sequences, FiniteSets, TLC

\* ------------------------------------------------------------------ bounds
MaxScans == 2       \* identifiers per batch file / lines accepted per session
MaxPrior == 2       \* records already held by the destination store
MaxDelay == 1       \* largest configured rate_limit_delay (seconds)

\* ---------------------------------------------------------- Python values
None == [t |-> "NoneType"]
Str(chars) == [t |-> "str", v |-> chars]
Num(n) == [t |-> "int", v |-> n]
List(seq) == [t |-> "list", v |-> seq]
Dict(f) == [t |-> "dict", v |-> f]
Bool(b) == [t |-> "bool", v |-> b]

\* bool(x) of Python
Truthy(x) ==
    CASE x.t = "NoneType" -> FALSE
      [] x.t = "str" -> x.v # <<>>
      [] x.t = "int" -> x.v # 0
      [] x.t = "list" -> x.v # <<>>
      [] x.t = "dict" -> DOMAIN x.v # {}

\* d.get(key, default) of a Python dict held as a function
DictGet(f, key, default) == IF key \in DOMAIN f THEN f[key] ELSE default

\* ------------------------------------------------------------- characters
Digits == {"0", "1", "2", "3", "4", "5", "6", "7", "8", "9"}
DigitVal == [c \in Digits |->
    CASE c = "0" -> 0 [] c = "1" -> 1 [] c = "2" -> 2 [] c = "3" -> 3
      [] c = "4" -> 4 [] c = "5" -> 5 [] c = "6" -> 6 [] c = "7" -> 7
      [] c = "8" -> 8 [] c = "9" -> 9]
DigitChar == [n \in 0..9 |-> CHOOSE c \in Digits : DigitVal[c] = n]

LowerLetters == <<"a", "b", "c", "d", "e", "f", "g", "h", "i", "j", "k", "l", "m",
                  "n", "o", "p", "q", "r", "s", "t", "u", "v", "w", "x", "y", "z">>
UpperLetters == <<"A", "B", "C", "D", "E", "F", "G", "H", "I", "J", "K", "L", "M",
                  "N", "O", "P", "Q", "R", "S", "T", "U", "V", "W", "X", "Y", "Z">>
Whitespace == {" ", "\t", "\n", "\r"}

\* str.upper(), character by character
UpperChar(c) ==
    IF \E i \in DOMAIN LowerLetters : LowerLetters[i] = c
    THEN UpperLetters[CHOOSE i \in DOMAIN LowerLetters : LowerLetters[i] = c]
    ELSE c
upper(s) == [i \in DOMAIN s |-> UpperChar(s[i])]

\* str.replace(old, "") for a one-character old
replace(s, old) == SelectSeq(s, LAMBDA c : c # old)

\* str.strip(): leading and trailing whitespace removed
RECURSIVE lstrip(_)
lstrip(s) == IF s # <<>> /\ Head(s) \in Whitespace THEN lstrip(Tail(s)) ELSE s
RECURSIVE rstrip(_)
rstrip(s) ==
    IF s # <<>> /\ s[Len(s)] \in Whitespace THEN rstrip(SubSeq(s, 1, Len(s) - 1)) ELSE s
strip(s) == rstrip(lstrip(s))

\* ------------------------------------------- modules/isbn_validator.py
\* a normalization that removes one hyphen and one space per application
RECURSIVE replace_once(_, _)
replace_once(s, old) ==
    IF s = <<>> THEN s
    ELSE IF Head(s) = old THEN Tail(s)
    ELSE <<Head(s)>> \o replace_once(Tail(s), old)
normalize_isbn_once(isbn) == upper(replace_once(replace_once(isbn, "-"), " "))

normalize_isbn(isbn) == upper(replace(replace(isbn, "-"), " "))

\* re.match(r"^\d{9}[\dX]$", s): "$" also matches just before a final newline
match_isbn10(s) ==
    /\ \/ Len(s) = 10
       \/ Len(s) = 11 /\ s[11] = "\n"
    /\ \A i \in 1..9 : s[i] \in Digits
    /\ s[10] \in Digits \cup {"X"}

\* re.match(r"^\d{13}$", s)
match_isbn13(s) ==
    /\ \/ Len(s) = 13
       \/ Len(s) = 14 /\ s[14] = "\n"
    /\ \A i \in 1..13 : s[i] \in Digits

\* for i in range(9): total += int(s[i]) * (10 - i)        (s is 0-based there)
RECURSIVE sum10(_, _)
sum10(s, i) == IF i = 0 THEN 0 ELSE sum10(s, i - 1) + DigitVal[s[i]] * (11 - i)

\* for i in range(12): total += int(s[i]) * (1 if i % 2 == 0 else 3)
RECURSIVE sum13(_, _)
sum13(s, i) ==
    IF i = 0 THEN 0
    ELSE sum13(s, i - 1) + DigitVal[s[i]] * (IF (i - 1) % 2 = 0 THEN 1 ELSE 3)

\* a validator for which a final "X" passes with any stem
is_valid_isbn10_x_wild(isbn_in) ==
    LET isbn == normalize_isbn(isbn_in) IN
    IF ~match_isbn10(isbn) THEN FALSE
    ELSE IF isbn[10] = "X" THEN TRUE
    ELSE (sum10(isbn, 9) + DigitVal[isbn[10]]) % 11 = 0

is_valid_isbn10(isbn_in) ==
    LET isbn == normalize_isbn(isbn_in) IN
    IF ~match_isbn10(isbn) THEN FALSE
    ELSE LET total == sum10(isbn, 9)
                      + (IF isbn[10] = "X" THEN 10 ELSE DigitVal[isbn[10]])
         IN total % 11 = 0

\* a validator that also accepts what is_valid_isbn10 accepts
is_valid_isbn13_either_format(isbn_in) ==
    LET isbn == normalize_isbn(isbn_in) IN
    IF is_valid_isbn10(isbn_in) THEN TRUE
    ELSE IF ~match_isbn13(isbn) THEN FALSE
    ELSE (10 - (sum13(isbn, 12) % 10)) % 10 = DigitVal[isbn[13]]

\* a validator that looks at the shape only
is_valid_isbn13_shape_only(isbn_in) == match_isbn13(normalize_isbn(isbn_in))

is_valid_isbn13(isbn_in) ==
    LET isbn == normalize_isbn(isbn_in) IN
    IF ~match_isbn13(isbn) THEN FALSE
    ELSE LET total == sum13(isbn, 12)
         IN (10 - (total % 10)) % 10 = DigitVal[isbn[13]]

to_isbn13(isbn10_in) ==
    LET isbn10 == normalize_isbn(isbn10_in) IN
    IF ~is_valid_isbn10(isbn10) THEN None
    ELSE LET prefix == <<"9", "7", "8">> \o SubSeq(isbn10, 1, Len(isbn10) - 1)
             total == sum13(prefix, 12)
             check_digit == (10 - (total % 10)) % 10
         IN Str(prefix \o <<DigitChar[check_digit]>>)

\* a conversion that keeps the ISBN-13 check digit instead of recomputing it
to_isbn10_keeps_check(isbn13_in) ==
    LET isbn13 == normalize_isbn(isbn13_in) IN
    IF ~is_valid_isbn13(isbn13) THEN None
    ELSE IF SubSeq(isbn13, 1, 3) # <<"9", "7", "8">> THEN None
    ELSE Str(SubSeq(isbn13, 4, Len(isbn13)))

to_isbn10(isbn13_in) ==
    LET isbn13 == normalize_isbn(isbn13_in) IN
    IF ~is_valid_isbn13(isbn13) THEN None
    ELSE IF SubSeq(isbn13, 1, 3) # <<"9", "7", "8">> THEN None
    ELSE LET isbn10_stem == SubSeq(isbn13, 4, Len(isbn13) - 1)
             total == sum10(isbn10_stem, 9)
             check_digit_val == (11 - (total % 11)) % 11
             check_digit == IF check_digit_val = 10 THEN "X"
                            ELSE DigitChar[check_digit_val]
         IN Str(isbn10_stem \o <<check_digit>>)


\* str.lower(), character by character
LowerChar(c) ==
    IF \E i \in DOMAIN UpperLetters : UpperLetters[i] = c
    THEN LowerLetters[CHOOSE i \in DOMAIN UpperLetters : UpperLetters[i] = c]
    ELSE c
lower(s) == [i \in DOMAIN s |-> LowerChar(s[i])]

\* the outcome of a call: a returned value, or an exception leaving the callee
Return(value) == [exc |-> "", val |-> value]
Raise(exception) == [exc |-> exception, val |-> None]

GOOGLE == <<"g", "o", "o", "g", "l", "e">>

\* ---------------------------------------------- modules/api_manager.py
\* What requests.get / raise_for_status / response.json() do on one call is
\* the environment's choice `http`: an exception kind, or "ok" with the
\* decoded JSON document.
CaughtByFetch == {"HTTPError", "ConnectionError", "Timeout", "RequestException",
                  "JSONDecodeError"}

\* data["items"][0]
FirstItem(items) ==
    CASE items.t = "list" -> Return(items.v[1])
      [] items.t = "str" -> Return(Str(<<items.v[1]>>))
      [] items.t = "dict" -> Raise("KeyError")
      [] OTHER -> Raise("TypeError")

fetch_book_data_google(isbn, api_key, http) ==
    IF http.kind # "ok"
    THEN IF http.kind \in CaughtByFetch THEN Return(None) ELSE Raise(http.kind)
    ELSE LET data == http.data IN
         IF data.t # "dict" THEN Raise("AttributeError")          \* data.get
         ELSE LET totalItems == DictGet(data.v, "totalItems", Num(0))
                  items == DictGet(data.v, "items", None)
              IN IF totalItems.t # "int" THEN Raise("TypeError")  \* ... > 0
                 ELSE IF totalItems.v > 0 /\ Truthy(items) THEN FirstItem(items)
                 ELSE Return(None)

\* -------------------------------- modules/bibliography_formatter.py
FormattedKeys == {"Input ISBN", "Title", "Subtitle", "Authors", "Publisher",
                  "Publication Date", "Publication Year", "ISBN-10", "ISBN-13",
                  "Page Count", "Language", "Edition", "Description",
                  "Categories", "Cover Image URL", "Source API", "Error"}

\* the formatted_data dict as first built (lines 21-39)
InitialFormattedData(source_api) ==
    [k \in FormattedKeys |-> IF k = "Source API" THEN Str(source_api) ELSE None]

\* ", ".join(parts) for a list of str values
RECURSIVE JoinChars(_)
JoinChars(parts) ==
    IF parts = <<>> THEN <<>>
    ELSE IF Len(parts) = 1 THEN parts[1].v
    ELSE parts[1].v \o <<",", " ">> \o JoinChars(Tail(parts))

\* published_date_raw.split('-')[0]
RECURSIVE BeforeHyphen(_)
BeforeHyphen(s) ==
    IF s = <<>> \/ Head(s) = "-" THEN <<>> ELSE <<Head(s)>> \o BeforeHyphen(Tail(s))

\* the statements of the "google" branch in source order; each either updates
\* formatted_data or raises
FormatStages == <<"title", "authors", "publisher", "date", "identifiers",
                  "page_language_description", "categories", "image">>

\* one joined list field (Authors, Categories): x and isinstance(x, list)
JoinedField(fd, key, x) ==
    IF Truthy(x) /\ x.t = "list"
    THEN IF \A i \in DOMAIN x.v : x.v[i].t = "str"
         THEN Return([fd EXCEPT ![key] = Str(JoinChars(x.v))])
         ELSE Raise("TypeError")
    ELSE Return(fd)

\* for identifier in industry_identifiers: ... identifier.get("type") ...
RECURSIVE IdentifierLoop(_, _)
IdentifierLoop(fd, ids) ==
    IF ids = <<>> THEN Return(fd)
    ELSE LET identifier == Head(ids) IN
         IF identifier.t # "dict" THEN [exc |-> "AttributeError", val |-> fd]
         ELSE LET type == DictGet(identifier.v, "type", None)
                  value == DictGet(identifier.v, "identifier", None)
                  fd1 == IF type = Str(<<"ISBN_10">>) THEN [fd EXCEPT !["ISBN-10"] = value]
                         ELSE IF type = Str(<<"ISBN_13">>) THEN [fd EXCEPT !["ISBN-13"] = value]
                         ELSE fd
              IN IdentifierLoop(fd1, Tail(ids))

FormatStage(stage, vi, fd) ==
    CASE stage = "title" ->
           IF vi.t # "dict" THEN Raise("AttributeError")       \* volume_info.get
           ELSE Return([fd EXCEPT !["Title"] = DictGet(vi.v, "title", None),
                                  !["Subtitle"] = DictGet(vi.v, "subtitle", None)])
      [] stage = "authors" -> JoinedField(fd, "Authors", DictGet(vi.v, "authors", None))
      [] stage = "publisher" ->
           Return([fd EXCEPT !["Publisher"] = DictGet(vi.v, "publisher", None)])
      [] stage = "date" ->
           LET published_date_raw == DictGet(vi.v, "publishedDate", None)
               fd1 == [fd EXCEPT !["Publication Date"] = published_date_raw]
           IN IF Truthy(published_date_raw) /\ published_date_raw.t = "str"
              THEN LET year_match == BeforeHyphen(published_date_raw.v) IN
                   IF Len(year_match) = 4 /\ \A i \in 1..4 : year_match[i] \in Digits
                   THEN Return([fd1 EXCEPT !["Publication Year"] = Str(year_match)])
                   ELSE Return(fd1)
              ELSE Return(fd1)
      [] stage = "identifiers" ->
           LET industry_identifiers == DictGet(vi.v, "industryIdentifiers", List(<<>>)) IN
           CASE industry_identifiers.t = "list" -> IdentifierLoop(fd, industry_identifiers.v)
             [] industry_identifiers.t = "str" ->
                  IF industry_identifiers.v = <<>> THEN Return(fd)
                  ELSE Raise("AttributeError")
             [] industry_identifiers.t = "dict" ->
                  IF DOMAIN industry_identifiers.v = {} THEN Return(fd)
                  ELSE Raise("AttributeError")
             [] OTHER -> Raise("TypeError")
      [] stage = "page_language_description" ->
           Return([fd EXCEPT !["Page Count"] = DictGet(vi.v, "pageCount", None),
                             !["Language"] = DictGet(vi.v, "language", None),
                             !["Description"] = DictGet(vi.v, "description", None)])
      [] stage = "categories" ->
           JoinedField(fd, "Categories", DictGet(vi.v, "categories", None))
      [] stage = "image" ->
           LET image_links == DictGet(vi.v, "imageLinks", Dict(<<>>)) IN
           IF image_links.t # "dict" THEN Raise("AttributeError")
           ELSE LET thumbnail == DictGet(image_links.v, "thumbnail", None)
                    smallThumbnail == DictGet(image_links.v, "smallThumbnail", None)
                IN Return([fd EXCEPT !["Cover Image URL"] =
                              IF Truthy(thumbnail) THEN thumbnail ELSE smallThumbnail])

\* except Exception as e: formatted_data["Error"] = f"Exception ...: {str(e)}"
FormatException(fd, exception) ==
    [fd EXCEPT !["Error"] = Str(<<"Exception during data formatting: ", exception>>)]

\* the try block of the "google" branch: stages run until one raises; what an
\* earlier stage (or a partly run identifier loop) stored stays stored
RECURSIVE RunFormatStages(_, _, _)
RunFormatStages(stages, vi, fd) ==
    IF stages = <<>> THEN fd
    ELSE LET r == FormatStage(Head(stages), vi, fd) IN
         IF r.exc = "" THEN RunFormatStages(Tail(stages), vi, r.val)
         ELSE FormatException(IF r.val = None THEN fd ELSE r.val, r.exc)

format_book_data(api_response, source_api) ==
    LET formatted_data == InitialFormattedData(source_api) IN
    IF ~Truthy(api_response) \/ api_response.t # "dict"
    THEN [formatted_data EXCEPT
            !["Error"] = Str(<<"Invalid API response received for formatting.">>)]
    ELSE IF lower(source_api) = GOOGLE
    THEN LET volume_info == DictGet(api_response.v, "volumeInfo", Dict(<<>>)) IN
         IF ~Truthy(volume_info)
         THEN [formatted_data EXCEPT
                 !["Error"] = Str(<<"API response missing 'volumeInfo'.">>)]
         ELSE RunFormatStages(FormatStages, volume_info, formatted_data)
    ELSE [formatted_data EXCEPT
            !["Error"] = Str(<<"Unsupported source API: ">> \o source_api)]

\* ------------------------------------------- modules/excel_processor.py
\* a reader that reports a missing file as one unreadable row
read_isbns_from_excel_placeholder(file) ==
    IF file.kind # "ok" THEN <<(<<"?">>)>>
    ELSE LET present == SelectSeq(file.cells, LAMBDA c : c # None)
             stripped == [i \in DOMAIN present |-> strip(present[i].v)]
         IN SelectSeq(stripped, LAMBDA t : t # <<>>)

\* The input spreadsheet of a batch run: [kind |-> "missing"], or
\* [kind |-> "ok", cells |-> the ISBN column, None for an empty cell].
read_isbns_from_excel(file) ==
    IF file.kind # "ok" THEN <<>>                  \* except ...: return isbns
    ELSE LET present == SelectSeq(file.cells, LAMBDA c : c # None)      \* dropna
             stripped == [i \in DOMAIN present |-> strip(present[i].v)]
         IN SelectSeq(stripped, LAMBDA t : t # <<>>)

\* write_bibliography_to_excel: the flag returned and the destination after
\* the call; io_ok is whether DataFrame.to_excel succeeds
write_bibliography_to_excel(data, dest, io_ok) ==
    IF data = <<>> THEN [success |-> FALSE, dest |-> dest]
    ELSE IF io_ok THEN [success |-> TRUE, dest |-> [exists |-> TRUE, state |-> "ok", records |-> data]]
    ELSE [success |-> FALSE, dest |-> dest]

\* ---------------------------------------------------------------- main.py
\* the names main.py binds by its imports (lines 2-11): argparse, logging,
\* time, json, os and the eight functions of modules/; pd is not among them
pd_is_bound == FALSE

\* an error record whose message says nothing about the lookup
ErrorRecord_generic(isbn_raw, message) ==
    ("Input ISBN" :> Str(isbn_raw)) @@ ("Error" :> Str(<<"Lookup failed">>))

ErrorRecord(isbn_raw, message) ==
    ("Input ISBN" :> Str(isbn_raw)) @@ ("Error" :> Str(message))

\* a backfill that does not look at what the formatter produced
Backfill_always(fd, normalized_isbn, valid_isbn10, valid_isbn13) ==
    LET fd1 == IF valid_isbn10 THEN [fd EXCEPT !["ISBN-10"] = Str(normalized_isbn)] ELSE fd
        fd2 == IF valid_isbn13 THEN [fd1 EXCEPT !["ISBN-13"] = Str(normalized_isbn)] ELSE fd1
        converted_isbn13 == to_isbn13(normalized_isbn)
    IN IF valid_isbn10 /\ ~valid_isbn13 /\ Truthy(converted_isbn13)
       THEN [fd2 EXCEPT !["ISBN-13"] = converted_isbn13]
       ELSE fd2

\* lines 93-99: fill the identifiers from the validated input
Backfill(fd, normalized_isbn, valid_isbn10, valid_isbn13) ==
    IF ~Truthy(fd["ISBN-10"]) /\ ~Truthy(fd["ISBN-13"])
    THEN LET fd1 == IF valid_isbn10 THEN [fd EXCEPT !["ISBN-10"] = Str(normalized_isbn)] ELSE fd
             fd2 == IF valid_isbn13 THEN [fd1 EXCEPT !["ISBN-13"] = Str(normalized_isbn)] ELSE fd1
             converted_isbn13 == to_isbn13(normalized_isbn)
         IN IF valid_isbn10 /\ ~valid_isbn13 /\ Truthy(converted_isbn13)
            THEN [fd2 EXCEPT !["ISBN-13"] = converted_isbn13]
            ELSE fd2
    ELSE fd

\* lines 79-105: query the source and build the record of an identifier that
\* passed validation: the exception that leaves (exc, "" for none), the record
\* returned (val) and the MetadataSource queries issued
resolve_valid(isbn_raw, normalized_isbn, valid_isbn10, valid_isbn13, api_key, preferred_api, http) ==
    LET isbn_to_query == normalized_isbn
        query_type == IF valid_isbn13 THEN "ISBN-13" ELSE "ISBN-10"
        use_google == lower(preferred_api) = GOOGLE
        fetched == IF use_google
                   THEN fetch_book_data_google(isbn_to_query, api_key, http)
                   ELSE Return(None)
        queries == IF use_google THEN <<isbn_to_query>> ELSE <<>>
        api_source_used == IF use_google THEN GOOGLE ELSE <<"N", "o", "n", "e">>
    IN IF fetched.exc # ""
       THEN [exc |-> fetched.exc, val |-> None, queries |-> queries]
       ELSE IF Truthy(fetched.val)
       THEN LET formatted == format_book_data(fetched.val, GOOGLE)
                with_input == [formatted EXCEPT !["Input ISBN"] = Str(isbn_raw)]
            IN [exc |-> "",
                val |-> Backfill(with_input, normalized_isbn, valid_isbn10, valid_isbn13),
                queries |-> queries]
       ELSE [exc |-> "",
             val |-> ErrorRecord(isbn_raw,
                        <<"No data found by ">> \o api_source_used
                        \o <<" API for ", query_type, " ">> \o isbn_to_query),
             queries |-> queries]

\* a pipeline that queries the source before it looks at the validation
process_single_isbn_query_first(isbn_raw, api_key, preferred_api, http) ==
    LET normalized_isbn == normalize_isbn(isbn_raw)
        valid_isbn10 == is_valid_isbn10(normalized_isbn)
        valid_isbn13 == is_valid_isbn13(normalized_isbn)
        r == resolve_valid(isbn_raw, normalized_isbn, valid_isbn10, valid_isbn13,
                           api_key, preferred_api, http)
    IN IF ~valid_isbn13 /\ ~valid_isbn10 /\ r.exc = ""
       THEN [r EXCEPT !.val = ErrorRecord(isbn_raw, <<"Invalid ISBN format">>)]
       ELSE r

\* a pipeline that converts an ISBN-10 to ISBN-13 before it queries
process_single_isbn_upconverting(isbn_raw, api_key, preferred_api, http) ==
    LET normalized_isbn == normalize_isbn(isbn_raw)
        valid_isbn10 == is_valid_isbn10(normalized_isbn)
        valid_isbn13 == is_valid_isbn13(normalized_isbn)
    IN IF ~valid_isbn13 /\ ~valid_isbn10
       THEN [exc |-> "", val |-> ErrorRecord(isbn_raw, <<"Invalid ISBN format">>),
             queries |-> <<>>]
       ELSE resolve_valid(isbn_raw,
                          IF valid_isbn13 THEN normalized_isbn
                          ELSE to_isbn13(normalized_isbn).v,
                          valid_isbn10, valid_isbn13, api_key, preferred_api, http)

\* One invocation of the pipeline (lines 51-105)
\* lines 55-77 of process_single_isbn: the class the identifier is resolved
\* as (query_type), or "Invalid" when the Error record is returned
classification(isbn_raw) ==
    LET normalized_isbn == normalize_isbn(isbn_raw)
        valid_isbn10 == is_valid_isbn10(normalized_isbn)
        valid_isbn13 == is_valid_isbn13(normalized_isbn)
    IN IF valid_isbn13 THEN "ISBN-13"
       ELSE IF valid_isbn10 THEN "ISBN-10"
       ELSE "Invalid"

process_single_isbn(isbn_raw, api_key, preferred_api, http) ==
    LET normalized_isbn == normalize_isbn(isbn_raw)
        valid_isbn10 == is_valid_isbn10(normalized_isbn)
        valid_isbn13 == is_valid_isbn13(normalized_isbn)
    IN IF ~valid_isbn13 /\ ~valid_isbn10
       THEN [exc |-> "", val |-> ErrorRecord(isbn_raw, <<"Invalid ISBN format">>),
             queries |-> <<>>]
       ELSE resolve_valid(isbn_raw, normalized_isbn, valid_isbn10, valid_isbn13,
                          api_key, preferred_api, http)

\* a test that takes only the pipeline's own two-field error records as failures
HasError_pipeline_only(result) ==
    "Error" \in DOMAIN result /\ Truthy(result["Error"]) /\ "Title" \notin DOMAIN result

\* result.get("Error")
HasError(result) == "Error" \in DOMAIN result /\ Truthy(result["Error"])

\* config["api_source_priority"][0] if config["api_source_priority"] else "google"
api_to_use(config) ==
    IF config.api_source_priority # <<>> THEN config.api_source_priority[1] ELSE GOOGLE

\* a rate-limit test that lets the second identifier through undelayed
rate_limit_due_late(count, config) == count > 2 /\ config.rate_limit_delay > 0

\* line 134: processed_count > 1 and config["rate_limit_delay"] > 0
batch_rate_limit_due(count, config) == count > 1 /\ config.rate_limit_delay > 0

\* line 234, the same test in the interactive loop
hid_rate_limit_due(count, config) == count > 1 /\ config.rate_limit_delay > 0

QUITSCAN == <<"Q", "U", "I", "T", "S", "C", "A", "N">>

\* line 222: scanned_input.upper() == 'QUITSCAN'
is_quit_command(scanned_input) == upper(scanned_input) = QUITSCAN

\* an input wait whose KeyboardInterrupt no handler catches
hid_input_step_interrupt_uncaught(ev) ==
    CASE ev.kind = "EOFError" -> [next |-> "break", exit |-> "eof", scanned_input |-> <<>>]
      [] ev.kind = "KeyboardInterrupt" ->
           [next |-> "raise", exit |-> "", scanned_input |-> <<>>]
      [] OTHER ->
           LET scanned_input == strip(ev.text) IN
           IF is_quit_command(scanned_input)
           THEN [next |-> "break", exit |-> "sentinel", scanned_input |-> scanned_input]
           ELSE IF scanned_input = <<>>
           THEN [next |-> "continue", exit |-> "", scanned_input |-> scanned_input]
           ELSE [next |-> "process", exit |-> "", scanned_input |-> scanned_input]

\* an input wait that treats an empty line as an identifier
hid_input_step_counts_empty(ev) ==
    CASE ev.kind = "EOFError" -> [next |-> "break", exit |-> "eof", scanned_input |-> <<>>]
      [] ev.kind = "KeyboardInterrupt" ->
           [next |-> "break", exit |-> "interrupt", scanned_input |-> <<>>]
      [] OTHER ->
           LET scanned_input == strip(ev.text) IN
           IF is_quit_command(scanned_input)
           THEN [next |-> "break", exit |-> "sentinel", scanned_input |-> scanned_input]
           ELSE [next |-> "process", exit |-> "", scanned_input |-> scanned_input]

\* lines 212-228: what one wait for input leads to.  ev is what input() does:
\* a line, EOFError or KeyboardInterrupt.  scanned_input (the model's isbn_raw
\* in this mode) is assigned whenever a line is read.
hid_input_step(ev) ==
    CASE ev.kind = "EOFError" -> [next |-> "break", exit |-> "eof", scanned_input |-> <<>>]
      [] ev.kind = "KeyboardInterrupt" ->
           [next |-> "break", exit |-> "interrupt", scanned_input |-> <<>>]
      [] OTHER ->
           LET scanned_input == strip(ev.text) IN
           IF is_quit_command(scanned_input)
           THEN [next |-> "break", exit |-> "sentinel", scanned_input |-> scanned_input]
           ELSE IF scanned_input = <<>>
           THEN [next |-> "continue", exit |-> "", scanned_input |-> scanned_input]
           ELSE [next |-> "process", exit |-> "", scanned_input |-> scanned_input]

\* pandas.read_excel(dtype=str).fillna('').to_dict('records'): every record
\* gets every column, every cell is a str, '' for an empty one
CellAsStr(v) ==
    CASE v.t = "NoneType" -> Str(<<>>)
      [] v.t = "str" -> v
      [] OTHER -> Str(<<"str(", v.t, ")">>)
RECURSIVE Columns(_)
Columns(records) ==
    IF records = <<>> THEN {} ELSE DOMAIN Head(records) \cup Columns(Tail(records))
ReadRecords(records) ==
    [i \in DOMAIN records |->
        [k \in Columns(records) |-> CellAsStr(DictGet(records[i], k, None))]]

\* a load that starts fresh without telling the user
load_existing_silent(dest) == [data |-> <<>>, warning |-> FALSE]

\* lines 174-203: the prior set and whether a warning is printed
load_existing(dest) ==
    IF ~dest.exists THEN [data |-> <<>>, warning |-> FALSE]
    ELSE LET attempt == IF ~pd_is_bound THEN Raise("NameError")        \* pd.read_excel
                        ELSE IF dest.state # "ok" THEN Raise("ValueError")
                        ELSE Return(ReadRecords(dest.records))
         IN CASE attempt.exc = "" -> [data |-> attempt.val, warning |-> FALSE]
              [] attempt.exc = "FileNotFoundError" -> [data |-> <<>>, warning |-> FALSE]
              [] OTHER -> [data |-> <<>>, warning |-> TRUE]   \* ValueError, Exception

\* ------------------------------------------------------- the environment
V13 == <<"9", "7", "8", "0", "3", "0", "6", "4", "0", "6", "1", "5", "7">>
PAD10 == <<" ", "0", "-", "3", "0", "6", "-", "4", "0", "6", "1", "5", "-", "2">>
NOTISBN == <<"n", "o", "t", "-", "a", "n", "-", "i", "s", "b", "n">>
quitscan == <<"q", "u", "i", "t", "s", "c", "a", "n">>
OPENLIBRARY == <<"o", "p", "e", "n", "l", "i", "b", "r", "a", "r", "y">>

\* JSON documents the metadata service may answer with
Book(volumeInfo) == Dict([id |-> Str(<<"vol1">>), volumeInfo |-> volumeInfo])
Answer(item) == Dict([totalItems |-> Num(1), items |-> List(<<item>>)])
DocFound ==
    Answer(Book(Dict([title |-> Str(<<"T">>),
                      industryIdentifiers |->
                          List(<<Dict([type |-> Str(<<"ISBN_13">>),
                                       identifier |-> Str(V13)])>>)])))
DocFoundNoIds == Answer(Book(Dict([title |-> Str(<<"T">>)])))
DocNoItems == Dict([totalItems |-> Num(0)])
DocNoVolumeInfo == Answer(Dict([id |-> Str(<<"vol1">>)]))
DocBadIds ==
    Answer(Book(Dict([title |-> Str(<<"T">>),
                      industryIdentifiers |-> List(<<Str(V13)>>)])))
DocNotAnObject == List(<<>>)
JsonDocs == {DocFound, DocFoundNoIds, DocNoItems, DocNoVolumeInfo, DocBadIds,
             DocNotAnObject}

\* what one HTTP exchange can do: an exception of requests, an interrupt of
\* the blocking call, or a decoded answer
Outcomes(docs) ==
    {[kind |-> k, data |-> None] : k \in CaughtByFetch \cup {"KeyboardInterrupt"}}
    \cup {[kind |-> "ok", data |-> d] : d \in docs}
\* the runs see a found book, no book, a book without volumeInfo and an
\* answer that is no JSON object
HttpOutcomes == Outcomes({DocFound, DocNoItems, DocNoVolumeInfo, DocNotAnObject})

SeqsUpTo(S, n) == UNION {[1..k -> S] : k \in 0..n}

BatchCells == {Str(V13), Str(PAD10), Str(NOTISBN), None}
InputFiles ==
    {[kind |-> "missing", cells |-> <<>>]}
    \cup {[kind |-> "ok", cells |-> c] : c \in SeqsUpTo(BatchCells, MaxScans)}

ScannedLines == {V13, PAD10, NOTISBN, QUITSCAN, quitscan, <<>>, <<" ", "\t">>}
InputEvents ==
    {[kind |-> "line", text |-> l] : l \in ScannedLines}
    \cup {[kind |-> "EOFError", text |-> <<>>],
          [kind |-> "KeyboardInterrupt", text |-> <<>>]}

\* a record an earlier run wrote to the destination; the first one is the
\* record of an identifier that can be scanned again
PriorRecord(i) ==
    [InitialFormattedData(GOOGLE) EXCEPT
        !["Input ISBN"] = IF i = 1 THEN Str(V13) ELSE Str(<<"P", DigitChar[i]>>),
        !["Title"] = Str(<<"T">>)]
AbsentStore == [exists |-> FALSE, state |-> "absent", records |-> <<>>]
CorruptStore == [exists |-> TRUE, state |-> "corrupt", records |-> <<>>]
FilledStore ==
    [exists |-> TRUE, state |-> "ok", records |-> [i \in 1..MaxPrior |-> PriorRecord(i)]]
NoSheetStore == [exists |-> TRUE, state |-> "no_sheet", records |-> <<>>]
Stores == {AbsentStore, CorruptStore, NoSheetStore, FilledStore}

\* CONFIG after load_config: the defaults (lines 18-24), with one of the two
\* options the run modes read overridden by the user's file
DefaultConfig ==
    [google_books_api_key |-> None, api_source_priority |-> <<GOOGLE>>,
     rate_limit_delay |-> 1]

\* a JSON value of the user's file as the run modes read the option
ConfigValue(key, v) ==
    CASE key = "rate_limit_delay" -> v.v
      [] key = "api_source_priority" -> [i \in DOMAIN v.v |-> v.v[i].v]
      [] OTHER -> v

\* a loader for which the delay is off unless the file sets it
load_config_zero_delay(config, file) ==
    Return([config EXCEPT !.rate_limit_delay =
                IF file.kind = "ok" /\ file.data.t = "dict"
                   /\ "rate_limit_delay" \in DOMAIN file.data.v
                THEN file.data.v["rate_limit_delay"].v ELSE 0])

\* load_config (lines 26-48) on the global CONFIG: file is what the --config
\* path leads to: no path given, a missing or unreadable file, a file that is
\* no JSON, or the decoded JSON value
load_config(config, file) ==
    LET attempt ==
            CASE file.kind = "none" -> Return(config)
              [] file.kind = "missing" -> Raise("FileNotFoundError")
              [] file.kind = "unreadable" -> Raise("PermissionError")
              [] file.kind = "invalid_json" -> Raise("JSONDecodeError")
              [] OTHER ->
                   LET user_config == file.data IN
                   CASE user_config.t = "dict" ->
                          Return([k \in DOMAIN config |->
                                     IF k \in DOMAIN user_config.v
                                     THEN ConfigValue(k, user_config.v[k])
                                     ELSE config[k]])
                     [] user_config.t \in {"list", "str"} /\ user_config.v = <<>> ->
                          Return(config)                   \* update of nothing
                     [] OTHER -> Raise("TypeError")
        loaded == IF attempt.exc = "" THEN attempt.val ELSE config     \* lines 35-40
    IN Return([k \in DOMAIN DefaultConfig |->                           \* setdefault
                  IF k \in DOMAIN loaded THEN loaded[k] ELSE DefaultConfig[k]])

\* the files a run may be started with
UserConfigs ==
    {Dict([rate_limit_delay |-> Num(d)]) : d \in 0..MaxDelay}
    \cup {Dict([api_source_priority |-> List(<<Str(OPENLIBRARY)>>)]),
          Dict([api_source_priority |-> List(<<>>)]),
          Dict([output_sheet_name |-> Str(<<"Books">>)]),
          List(<<>>), Num(5)}
NoFile == [kind |-> "none", data |-> None]
ConfigFiles ==
    {[kind |-> k, data |-> None] : k \in {"none", "missing", "unreadable", "invalid_json"}}
    \cup {[kind |-> "ok", data |-> u] : u \in UserConfigs}
Configs == {load_config(DefaultConfig, f).val : f \in ConfigFiles}

\* ------------------------------------------- inputs of single applications
\* identifiers as the run modes pass them on: stripped, not yet normalized
H10 == strip(PAD10)
X10 == <<"0", "8", "0", "4", "4", "2", "9", "5", "7", "x">>
PipeRaws == {V13, H10, X10, NOTISBN}

Google == <<"G", "o", "o", "g", "l", "e">>
PipeApis == {GOOGLE, Google, OPENLIBRARY}

\* more answers of the metadata service: a book listed under its ISBN-10
\* only, identifiers whose second entry is no object, a volumeInfo that is a
\* string, imageLinks that is a string
DocIsbn10Only ==
    Answer(Book(Dict([title |-> Str(<<"T">>),
                      industryIdentifiers |->
                          List(<<Dict([type |-> Str(<<"ISBN_10">>),
                                       identifier |-> Str(normalize_isbn(H10))])>>)])))
DocPartialIds ==
    Answer(Book(Dict([title |-> Str(<<"T">>),
                      industryIdentifiers |->
                          List(<<Dict([type |-> Str(<<"ISBN_10">>),
                                       identifier |-> Str(normalize_isbn(H10))]),
                                 Str(V13)>>)])))
DocVolumeInfoStr == Answer(Book(Str(<<"a", "b", "c">>)))
DocBadImageLinks ==
    Answer(Book(Dict([title |-> Str(<<"T">>), imageLinks |-> Str(<<"x">>)])))
PipeDocs == JsonDocs \cup {DocIsbn10Only, DocPartialIds, DocVolumeInfoStr, DocBadImageLinks}

\* an HTTP exchange that ends by itself (no interrupt of the blocking call)
PipeOutcomes == {o \in Outcomes(PipeDocs) : o.kind # "KeyboardInterrupt"}

\* what fetch_book_data_google hands to the formatter: the first item of an
\* answer; None stands for a caller passing no record
MetadataRecords ==
    {fetch_book_data_google(V13, None, o).val :
        o \in {x \in PipeOutcomes : fetch_book_data_google(V13, None, x).exc = ""}}

\* one application: the function, its arguments, and its outcome once made
NoResult == [exc |-> "", val |-> None, queries |-> <<>>]
NoCall ==
    [fn |-> "none", isbn |-> <<>>, preferred_api |-> <<>>, http |-> [kind |-> "none", data |-> None],
     api_response |-> None, file |-> NoFile, done |-> FALSE, result |-> NoResult]
PendingCalls ==
    {[NoCall EXCEPT !.fn = "fetch_book_data_google", !.isbn = normalize_isbn(r), !.http = o] :
        r \in {x \in PipeRaws : is_valid_isbn10(x) \/ is_valid_isbn13(x)}, o \in PipeOutcomes}
    \cup {[NoCall EXCEPT !.fn = "format_book_data", !.api_response = m, !.preferred_api = GOOGLE] :
             m \in MetadataRecords}
    \cup {[NoCall EXCEPT !.fn = "process_single_isbn", !.isbn = r, !.preferred_api = a, !.http = o] :
             r \in PipeRaws, a \in PipeApis, o \in PipeOutcomes}
    \cup {[NoCall EXCEPT !.fn = "load_config", !.file = f] : f \in ConfigFiles}

\* ------------------------------------------------------------------ state
VARIABLES
    mode,                   \* "batch" (--input_excel) or "hid" (--scanner)
    pc,                     \* where the run is
    CONFIG,
    dest,                   \* the destination spreadsheet (output_excel_path)
    dest_at_start,          \* what it held when the run began
    raw_isbns,              \* batch: what read_isbns_from_excel returned
    isbn_raw,               \* the identifier of the current iteration
    bibliography_data,
    scanned_items_session,
    processed_count,
    success_count,
    failure_count,
    write_result,           \* "none", "ok", "failed", "skipped"
    load_warning,           \* the prior load printed its warning
    exit_reason,            \* which break ended the interactive loop
    crash,                  \* the exception that ended the process, "" for none
    input_kind,             \* what the last input() did: "line", "EOFError", ...;
                            \* batch: whether the input file was found
    invocations,            \* one entry per call of process_single_isbn
    timeline,               \* "load", "invoke", "call", "sleep", "write" in order
    total_delay,            \* seconds slept so far
    call                    \* one function of modules/ or the pipeline applied on its own

vars == <<mode, pc, CONFIG, dest, dest_at_start, raw_isbns, isbn_raw, bibliography_data,
          scanned_items_session, processed_count, success_count, failure_count,
          write_result, load_warning, exit_reason, crash, input_kind,
          invocations, timeline, total_delay, call>>

Init ==
    /\ mode \in {"batch", "hid"}
    /\ pc = "start"
    /\ CONFIG \in Configs
    /\ dest \in IF mode = "hid" THEN Stores ELSE {AbsentStore, FilledStore}
    /\ dest_at_start = dest
    /\ raw_isbns = <<>>
    /\ isbn_raw = <<>>
    /\ bibliography_data = <<>>
    /\ scanned_items_session = <<>>
    /\ processed_count = 0
    /\ success_count = 0
    /\ failure_count = 0
    /\ write_result = "none"
    /\ load_warning = FALSE
    /\ exit_reason = ""
    /\ crash = ""
    /\ input_kind = "none"
    /\ invocations = <<>>
    /\ timeline = <<>>
    /\ total_delay = 0
    /\ call = NoCall

\* ---------------------------------------------------------------- actions
Invocation(raw, r) == [isbn_raw |-> raw, exc |-> r.exc, val |-> r.val, queries |-> r.queries]
CallEvents(r) == [i \in DOMAIN r.queries |-> "call"]

\* run_batch_mode, lines 115-128: read the input once; return if it is empty
BatchRead ==
    /\ mode = "batch" /\ pc = "start"
    /\ \E file \in InputFiles :
         /\ raw_isbns' = read_isbns_from_excel(file)
         /\ input_kind' = file.kind
         /\ timeline' = Append(timeline, "read_input")
         /\ pc' = IF raw_isbns' = <<>> THEN "done" ELSE "loop"
    /\ UNCHANGED <<call, mode, CONFIG, dest_at_start, dest, isbn_raw, bibliography_data,
                   scanned_items_session, processed_count, success_count,
                   failure_count, write_result, load_warning, exit_reason, crash,
                   invocations, total_delay>>

\* lines 130-136: the head of one iteration, up to the rate-limit test
BatchLoop ==
    /\ mode = "batch" /\ pc = "loop"
    /\ IF processed_count < Len(raw_isbns)
       THEN /\ processed_count' = processed_count + 1
            /\ isbn_raw' = raw_isbns[processed_count']
            /\ pc' = IF batch_rate_limit_due(processed_count', CONFIG)
                     THEN "sleep" ELSE "resolve"
       ELSE /\ pc' = "persist"
            /\ UNCHANGED <<processed_count, isbn_raw>>
    /\ UNCHANGED <<call, mode, CONFIG, dest_at_start, dest, raw_isbns, bibliography_data,
                   scanned_items_session, success_count, failure_count,
                   write_result, load_warning, exit_reason, crash, input_kind,
                   invocations, timeline, total_delay>>

\* time.sleep(config["rate_limit_delay"]) (lines 136, 236): it returns after
\* the delay, or KeyboardInterrupt is raised in it; no handler encloses it
Sleep ==
    /\ pc = "sleep"
    /\ \E interrupted \in BOOLEAN :
         IF interrupted
         THEN /\ pc' = "crashed"
              /\ crash' = "KeyboardInterrupt"
              /\ UNCHANGED <<timeline, total_delay>>
         ELSE /\ pc' = "resolve"
              /\ timeline' = Append(timeline, "sleep")
              /\ total_delay' = total_delay + CONFIG.rate_limit_delay
              /\ UNCHANGED crash
    /\ UNCHANGED <<call, mode, CONFIG, dest_at_start, dest, raw_isbns, isbn_raw, bibliography_data,
                   scanned_items_session, processed_count, success_count,
                   failure_count, write_result, load_warning, exit_reason,
                   input_kind, invocations>>

\* lines 138-147: resolve the identifier, append the record, count it; an
\* exception leaving process_single_isbn leaves run_batch_mode and main too
BatchResolve ==
    /\ mode = "batch" /\ pc = "resolve"
    /\ \E http \in HttpOutcomes :
         LET r == process_single_isbn(isbn_raw, CONFIG.google_books_api_key,
                                      api_to_use(CONFIG), http)
         IN /\ invocations' = Append(invocations, Invocation(isbn_raw, r))
            /\ timeline' = timeline \o <<"invoke">> \o CallEvents(r)
            /\ IF r.exc # ""
               THEN /\ pc' = "crashed"
                    /\ crash' = r.exc
                    /\ UNCHANGED <<bibliography_data, success_count, failure_count>>
               ELSE /\ pc' = "loop"
                    /\ bibliography_data' = Append(bibliography_data, r.val)
                    /\ IF HasError(r.val)
                       THEN failure_count' = failure_count + 1 /\ UNCHANGED success_count
                       ELSE success_count' = success_count + 1 /\ UNCHANGED failure_count
                    /\ UNCHANGED crash
    /\ UNCHANGED <<call, mode, CONFIG, dest_at_start, dest, raw_isbns, isbn_raw, scanned_items_session,
                   processed_count, write_result, load_warning, exit_reason,
                   input_kind, total_delay>>

\* a final write whose failure is booked as one more failed item
BatchPersist_failure_counted ==
    /\ mode = "batch" /\ pc = "persist"
    /\ \E io_ok \in BOOLEAN :
         IF bibliography_data # <<>>
         THEN LET w == write_bibliography_to_excel(bibliography_data, dest, io_ok)
              IN /\ dest' = w.dest
                 /\ write_result' = IF w.success THEN "ok" ELSE "failed"
                 /\ failure_count' = IF w.success THEN failure_count ELSE failure_count + 1
                 /\ timeline' = Append(timeline, "write")
         ELSE /\ write_result' = "skipped"
              /\ UNCHANGED <<dest, timeline, failure_count>>
    /\ pc' = "done"
    /\ UNCHANGED <<call, mode, CONFIG, dest_at_start, raw_isbns, isbn_raw, bibliography_data,
                   scanned_items_session, processed_count, success_count,
                   load_warning, exit_reason, crash, input_kind,
                   invocations, total_delay>>

\* lines 149-164: the one write of the run, then the summary
BatchPersist ==
    /\ mode = "batch" /\ pc = "persist"
    /\ \E io_ok \in BOOLEAN :
         IF bibliography_data # <<>>
         THEN LET w == write_bibliography_to_excel(bibliography_data, dest, io_ok)
              IN /\ dest' = w.dest
                 /\ write_result' = IF w.success THEN "ok" ELSE "failed"
                 /\ timeline' = Append(timeline, "write")
         ELSE /\ write_result' = "skipped"
              /\ UNCHANGED <<dest, timeline>>
    /\ pc' = "done"
    /\ UNCHANGED <<call, mode, CONFIG, dest_at_start, raw_isbns, isbn_raw, bibliography_data,
                   scanned_items_session, processed_count, success_count,
                   failure_count, load_warning, exit_reason, crash, input_kind,
                   invocations, total_delay>>

\* run_hid_scanner_mode, lines 174-209: load what the destination holds
HidLoad ==
    /\ mode = "hid" /\ pc = "start"
    /\ LET loaded == load_existing(dest)
       IN /\ bibliography_data' = loaded.data
          /\ load_warning' = loaded.warning
    /\ timeline' = IF dest.exists THEN Append(timeline, "load") ELSE timeline
    /\ pc' = "input"
    /\ UNCHANGED <<call, mode, CONFIG, dest_at_start, dest, raw_isbns, isbn_raw, scanned_items_session,
                   processed_count, success_count, failure_count, write_result,
                   exit_reason, crash, input_kind, invocations, total_delay>>

\* lines 211-236: one wait for input() and what follows it up to the
\* rate-limit test
HidInput ==
    /\ mode = "hid" /\ pc = "input"
    /\ \E ev \in InputEvents :
         LET step == hid_input_step(ev) IN
         /\ step.next = "process" => processed_count < MaxScans
         /\ input_kind' = ev.kind
         /\ isbn_raw' = IF ev.kind = "line" THEN step.scanned_input ELSE isbn_raw
         /\ CASE step.next = "break" ->
                   /\ pc' = "persist"
                   /\ exit_reason' = step.exit
                   /\ UNCHANGED <<processed_count, crash>>
              [] step.next = "continue" ->
                   /\ pc' = "input"
                   /\ UNCHANGED <<exit_reason, processed_count, crash>>
              [] step.next = "process" ->
                   /\ processed_count' = processed_count + 1
                   /\ pc' = IF hid_rate_limit_due(processed_count', CONFIG)
                            THEN "sleep" ELSE "resolve"
                   /\ UNCHANGED <<exit_reason, crash>>
              [] OTHER ->                     \* an exception no handler catches
                   /\ pc' = "crashed"
                   /\ crash' = ev.kind
                   /\ UNCHANGED <<exit_reason, processed_count>>
    /\ UNCHANGED <<call, mode, CONFIG, dest_at_start, dest, raw_isbns, bibliography_data,
                   scanned_items_session, success_count, failure_count,
                   write_result, load_warning, invocations, timeline,
                   total_delay>>

\* lines 238-254: resolve the scanned identifier, append it to the session
HidResolve ==
    /\ mode = "hid" /\ pc = "resolve"
    /\ \E http \in HttpOutcomes :
         LET r == process_single_isbn(isbn_raw, CONFIG.google_books_api_key,
                                      api_to_use(CONFIG), http)
         IN /\ invocations' = Append(invocations, Invocation(isbn_raw, r))
            /\ timeline' = timeline \o <<"invoke">> \o CallEvents(r)
            /\ IF r.exc # ""
               THEN /\ pc' = "crashed"
                    /\ crash' = r.exc
                    /\ UNCHANGED <<scanned_items_session, success_count, failure_count>>
               ELSE /\ pc' = "input"
                    /\ scanned_items_session' = Append(scanned_items_session, r.val)
                    /\ IF HasError(r.val)
                       THEN failure_count' = failure_count + 1 /\ UNCHANGED success_count
                       ELSE success_count' = success_count + 1 /\ UNCHANGED failure_count
                    /\ UNCHANGED crash
    /\ UNCHANGED <<call, mode, CONFIG, dest_at_start, dest, raw_isbns, isbn_raw, bibliography_data,
                   processed_count, write_result, load_warning, exit_reason,
                   input_kind, total_delay>>

\* a session that saves and then goes on reading input
HidPersist_inside_loop ==
    /\ mode = "hid" /\ pc = "persist"
    /\ bibliography_data' = IF scanned_items_session # <<>>
                            THEN bibliography_data \o scanned_items_session
                            ELSE bibliography_data
    /\ \E io_ok \in BOOLEAN :
         IF bibliography_data' # <<>>
         THEN LET w == write_bibliography_to_excel(bibliography_data', dest, io_ok)
              IN /\ dest' = w.dest
                 /\ write_result' = IF w.success THEN "ok" ELSE "failed"
                 /\ timeline' = Append(timeline, "write")
         ELSE /\ write_result' = "skipped"
              /\ UNCHANGED <<dest, timeline>>
    /\ pc' = "input"
    /\ UNCHANGED <<call, mode, CONFIG, dest_at_start, raw_isbns, isbn_raw, scanned_items_session,
                   processed_count, success_count, failure_count, load_warning,
                   exit_reason, crash, input_kind, invocations, total_delay>>

\* lines 256-280: merge the session into the loaded set, write it, summarise
HidPersist ==
    /\ mode = "hid" /\ pc = "persist"
    /\ bibliography_data' = IF scanned_items_session # <<>>
                            THEN bibliography_data \o scanned_items_session
                            ELSE bibliography_data
    /\ \E io_ok \in BOOLEAN :
         IF bibliography_data' # <<>>
         THEN LET w == write_bibliography_to_excel(bibliography_data', dest, io_ok)
              IN /\ dest' = w.dest
                 /\ write_result' = IF w.success THEN "ok" ELSE "failed"
                 /\ timeline' = Append(timeline, "write")
         ELSE /\ write_result' = "skipped"
              /\ UNCHANGED <<dest, timeline>>
    /\ pc' = "done"
    /\ UNCHANGED <<call, mode, CONFIG, dest_at_start, raw_isbns, isbn_raw, scanned_items_session,
                   processed_count, success_count, failure_count, load_warning,
                   exit_reason, crash, input_kind, invocations, total_delay>>

Next ==
    \/ BatchRead
    \/ BatchLoop
    \/ Sleep
    \/ BatchResolve
    \/ BatchPersist
    \/ HidLoad
    \/ HidInput
    \/ HidResolve
    \/ HidPersist

Spec == Init /\ [][Next]_vars

\* ------------------------------------------- single applications
\* fetch_book_data_google, format_book_data and process_single_isbn applied
\* once each to the inputs above, outside a run
PipelineInit ==
    /\ call \in PendingCalls
    /\ mode = "none"
    /\ pc = "idle"
    /\ CONFIG = DefaultConfig
    /\ dest = AbsentStore
    /\ dest_at_start = AbsentStore
    /\ raw_isbns = <<>>
    /\ isbn_raw = <<>>
    /\ bibliography_data = <<>>
    /\ scanned_items_session = <<>>
    /\ processed_count = 0
    /\ success_count = 0
    /\ failure_count = 0
    /\ write_result = "none"
    /\ load_warning = FALSE
    /\ exit_reason = ""
    /\ crash = ""
    /\ input_kind = "none"
    /\ invocations = <<>>
    /\ timeline = <<>>
    /\ total_delay = 0

RunUnchanged ==
    UNCHANGED <<mode, pc, CONFIG, dest, dest_at_start, raw_isbns, isbn_raw,
                bibliography_data, scanned_items_session, processed_count,
                success_count, failure_count, write_result, load_warning,
                exit_reason, crash, input_kind, invocations, timeline, total_delay>>

CallFetch ==
    /\ call.fn = "fetch_book_data_google" /\ ~call.done
    /\ LET r == fetch_book_data_google(call.isbn, None, call.http)
       IN call' = [call EXCEPT !.done = TRUE,
                               !.result = [exc |-> r.exc, val |-> r.val, queries |-> <<call.isbn>>]]
    /\ RunUnchanged

CallFormat ==
    /\ call.fn = "format_book_data" /\ ~call.done
    /\ call' = [call EXCEPT !.done = TRUE,
                            !.result = [exc |-> "",
                                        val |-> format_book_data(call.api_response,
                                                                 call.preferred_api),
                                        queries |-> <<>>]]
    /\ RunUnchanged

CallProcess ==
    /\ call.fn = "process_single_isbn" /\ ~call.done
    /\ call' = [call EXCEPT !.done = TRUE,
                            !.result = process_single_isbn(call.isbn, None,
                                                           call.preferred_api, call.http)]
    /\ RunUnchanged

\* load_config(args.config) at the start of main (line 296)
CallLoadConfig ==
    /\ call.fn = "load_config" /\ ~call.done
    /\ LET r == load_config(CONFIG, call.file)
       IN /\ CONFIG' = r.val
          /\ call' = [call EXCEPT !.done = TRUE,
                                  !.result = [exc |-> r.exc, val |-> None, queries |-> <<>>]]
    /\ UNCHANGED <<mode, pc, dest, dest_at_start, raw_isbns, isbn_raw,
                   bibliography_data, scanned_items_session, processed_count,
                   success_count, failure_count, write_result, load_warning,
                   exit_reason, crash, input_kind, invocations, timeline, total_delay>>

PipelineNext ==
    \/ CallFetch
    \/ CallFormat
    \/ CallProcess
    \/ CallLoadConfig

PipelineSpec == PipelineInit /\ [][PipelineNext]_vars

\* ------------------------------------ single applications of the codec
\* the identifiers of tests/test_isbn_validator.py and one with check "X"
A10 == <<"0", "3", "0", "6", "4", "0", "6", "1", "5", "2">>
B10 == <<"0", "4", "3", "9", "0", "2", "3", "5", "2", "1">>
C10 == <<"0", "8", "0", "4", "4", "2", "9", "5", "7", "X">>
B13 == <<"9", "7", "8", "0", "4", "3", "9", "0", "2", "3", "5", "2", "8">>
C13 == <<"9", "7", "8", "0", "8", "0", "4", "4", "2", "9", "5", "7", "3">>
D13 == <<"9", "7", "9", "1", "2", "3", "4", "5", "6", "7", "8", "9", "6">>
Known10 == {A10, B10, C10}
Known13 == {V13, B13, C13, D13}

\* the strings the codec is applied to: the identifiers, their spellings
\* (hyphens, spaces, lowercase, other whitespace), their adjacent
\* transpositions, every other final character, and damaged ones
Swap(v, i) ==
    [j \in DOMAIN v |-> IF j = i THEN v[i + 1] ELSE IF j = i + 1 THEN v[i] ELSE v[j]]
Insert(v, i, c) == SubSeq(v, 1, i) \o <<c>> \o SubSeq(v, i + 1, Len(v))
Transpositions(v) == {Swap(v, i) : i \in 1..(Len(v) - 1)}
FinalCharacters(v) == {[v EXCEPT ![Len(v)] = c] : c \in Digits \cup {"X"}}
Spellings(v) ==
    {v, lower(v), Insert(v, 1, "-"), Insert(Insert(v, 1, "-"), 5, "-"),
     Insert(Insert(v, 1, " "), 5, " "), <<" ">> \o v \o <<" ">>,
     Insert(Insert(v, 1, "-"), 5, " "),
     v \o <<"\n">>, <<"\n">> \o v, Insert(v, 4, "\t"), v \o <<"\r">>}
Damaged(v) ==
    {SubSeq(v, 1, Len(v) - 1), v \o <<"0">>, [v EXCEPT ![5] = "Y"], [v EXCEPT ![1] = "X"]}
CodecInputs ==
    UNION {Spellings(v) \cup Transpositions(v) \cup FinalCharacters(v) \cup Damaged(v) :
              v \in Known10 \cup Known13}
    \cup {<<>>, NOTISBN, PAD10, <<" ", "-", " ">>, <<"-", "-">>, <<"\t">>}
CodecFunctions ==
    {"normalize_isbn", "is_valid_isbn10", "is_valid_isbn13", "to_isbn13", "to_isbn10"}
CodecCalls ==
    {[NoCall EXCEPT !.fn = f, !.isbn = x] :
        f \in CodecFunctions \cup {"classification"}, x \in CodecInputs}

CodecInit ==
    /\ call \in CodecCalls
    /\ mode = "none"
    /\ pc = "idle"
    /\ CONFIG = DefaultConfig
    /\ dest = AbsentStore
    /\ dest_at_start = AbsentStore
    /\ raw_isbns = <<>>
    /\ isbn_raw = <<>>
    /\ bibliography_data = <<>>
    /\ scanned_items_session = <<>>
    /\ processed_count = 0
    /\ success_count = 0
    /\ failure_count = 0
    /\ write_result = "none"
    /\ load_warning = FALSE
    /\ exit_reason = ""
    /\ crash = ""
    /\ input_kind = "none"
    /\ invocations = <<>>
    /\ timeline = <<>>
    /\ total_delay = 0

Returned(v) == [exc |-> "", val |-> v, queries |-> <<>>]

CallNormalize ==
    /\ call.fn = "normalize_isbn" /\ ~call.done
    /\ call' = [call EXCEPT !.done = TRUE,
                            !.result = Returned(Str(normalize_isbn(call.isbn)))]
    /\ RunUnchanged

CallIsValid10 ==
    /\ call.fn = "is_valid_isbn10" /\ ~call.done
    /\ call' = [call EXCEPT !.done = TRUE,
                            !.result = Returned(Bool(is_valid_isbn10(call.isbn)))]
    /\ RunUnchanged

CallIsValid13 ==
    /\ call.fn = "is_valid_isbn13" /\ ~call.done
    /\ call' = [call EXCEPT !.done = TRUE,
                            !.result = Returned(Bool(is_valid_isbn13(call.isbn)))]
    /\ RunUnchanged

CallTo13 ==
    /\ call.fn = "to_isbn13" /\ ~call.done
    /\ call' = [call EXCEPT !.done = TRUE, !.result = Returned(to_isbn13(call.isbn))]
    /\ RunUnchanged

CallTo10 ==
    /\ call.fn = "to_isbn10" /\ ~call.done
    /\ call' = [call EXCEPT !.done = TRUE, !.result = Returned(to_isbn10(call.isbn))]
    /\ RunUnchanged

\* the classification step of process_single_isbn (main.py lines 55-77)
CallClassify ==
    /\ call.fn = "classification" /\ ~call.done
    /\ call' = [call EXCEPT !.done = TRUE,
                            !.result = Returned(Str(<<classification(call.isbn)>>))]
    /\ RunUnchanged

CodecNext ==
    \/ CallClassify
    \/ CallNormalize
    \/ CallIsValid10
    \/ CallIsValid13
    \/ CallTo13
    \/ CallTo10

CodecSpec == CodecInit /\ [][CodecNext]_vars

\* ----------------------------------------------------------------- claims
Positions(event) == {i \in DOMAIN timeline : timeline[i] = event}
Results == [i \in DOMAIN invocations |-> invocations[i].val]
IsInvalid(raw) == ~is_valid_isbn10(raw) /\ ~is_valid_isbn13(raw)
Delay == CONFIG.rate_limit_delay

\* C1: an interactive run whose destination holds N records in the expected
\* sheet and whose session resolves M records ends with a record set of
\* exactly N+M records: the N prior records in their order, then the M
\* session records in scan order.
C1_MergeOrder ==
    (mode = "hid" /\ pc = "done" /\ dest_at_start.state = "ok" /\ write_result = "ok") =>
        LET N == Len(dest_at_start.records)
            M == Len(Results)
            written == dest.records
        IN /\ Len(written) = N + M
           /\ \A i \in 1..N : written[i]["Input ISBN"]
                                  = dest_at_start.records[i]["Input ISBN"]
           /\ \A j \in 1..M : written[N + j] = Results[j]

\* C2: the sentinel, the end of the input stream and an interrupt during the
\* input wait each end the loop; the run is then at the persist step, has not
\* aborted, and every record resolved in the session is in the set to write.
ExitEvent ==
    /\ mode = "hid"
    /\ \/ input_kind \in {"EOFError", "KeyboardInterrupt"}
       \/ input_kind = "line" /\ isbn_raw = QUITSCAN
C2_ExitKeepsSession ==
    ExitEvent =>
        /\ pc \in {"persist", "done"}
        /\ crash = ""
        /\ scanned_items_session = Results
        /\ pc = "done" =>
             LET L == Len(bibliography_data)
                 M == Len(Results)
             IN /\ L >= M
                /\ SubSeq(bibliography_data, L - M + 1, L) = Results
                /\ M > 0 => write_result \in {"ok", "failed"}
C2_Witness ==
    /\ mode = "hid" /\ pc = "done"
    /\ input_kind = "KeyboardInterrupt"
    /\ Len(scanned_items_session) = 2
    /\ write_result = "ok"
    /\ dest.records = scanned_items_session

\* C3: once a session has resolved a record, an interrupt at any later point
\* (input wait, rate-limit delay, metadata call) neither crashes the process
\* nor loses the resolved records.
C3_InterruptAnywhere ==
    (mode = "hid" /\ Len(scanned_items_session) >= 1) => crash # "KeyboardInterrupt"

\* C4: the loop ends on the sentinel only when the stripped line is exactly
\* QUITSCAN; a line differing in letter case is resolved like an identifier.
C4_SentinelCaseSensitive ==
    (mode = "hid" /\ exit_reason = "sentinel") => isbn_raw = QUITSCAN

\* C5: process_single_isbn never raises: whatever the identifier, the source
\* name and the answer of the metadata service (present, absent, transport
\* failure, malformed payload), an invocation returns a record.
C5_PipelineNeverRaises ==
    \A i \in DOMAIN invocations : invocations[i].exc \in {"", "KeyboardInterrupt"}

\* C6: an invocation issues exactly one MetadataSource call if the identifier
\* is a valid ISBN-10 or ISBN-13 and none if it is invalid, for every
\* configured source priority.
C6_OneCallIffValid ==
    \A i \in DOMAIN invocations :
        Len(invocations[i].queries) = IF IsInvalid(invocations[i].isbn_raw) THEN 0 ELSE 1

\* C7: an invalid identifier yields the record {Input ISBN: the raw input,
\* Error: "Invalid ISBN format"} without a MetadataSource call; a batch of
\* invalid identifiers only causes no call at all.
C7_InvalidShortCircuit ==
    /\ \A i \in DOMAIN invocations :
         LET e == invocations[i] IN
         IsInvalid(e.isbn_raw) =>
            /\ e.exc = ""
            /\ DOMAIN e.val = {"Input ISBN", "Error"}
            /\ e.val["Input ISBN"] = Str(e.isbn_raw)
            /\ e.val["Error"] = Str(<<"Invalid ISBN format">>)
            /\ e.queries = <<>>
    /\ (mode = "batch" /\ \A i \in DOMAIN raw_isbns : IsInvalid(raw_isbns[i])) =>
          Positions("call") = {}
C7_Witness ==
    /\ mode = "batch" /\ pc = "done" /\ write_result = "ok"
    /\ api_to_use(CONFIG) = GOOGLE
    /\ Len(raw_isbns) = 2
    /\ \A i \in DOMAIN raw_isbns : IsInvalid(raw_isbns[i])
    /\ Len(invocations) = 2

\* C8: a batch of k identifiers ends with k records written, record i being
\* the pipeline's result for identifier i; an identifier that fails becomes an
\* Error record in its place and the ones after it are still processed.
C8_BatchOrder ==
    (/\ mode = "batch" /\ raw_isbns # <<>>
     /\ pc \in {"done", "crashed"} /\ crash # "KeyboardInterrupt") =>
        /\ write_result # "none"
        /\ Len(bibliography_data) = Len(raw_isbns)
        /\ \A i \in DOMAIN raw_isbns :
             /\ invocations[i].isbn_raw = raw_isbns[i]
             /\ bibliography_data[i] = invocations[i].val

\* C9 as stated: no delay before the first MetadataSource call of the run or
\* session, and, for a positive delay, a delay between every two consecutive
\* MetadataSource calls.
SleepBetweenCalls ==
    Delay > 0 =>
        \A i, j \in Positions("call") :
            i < j => \E k \in Positions("sleep") : i < k /\ k < j
C9_NoDelayBeforeFirstCall ==
    /\ \A i \in Positions("sleep") :
         Positions("call") # {} => \E j \in Positions("call") : j < i
    /\ SleepBetweenCalls

\* C9 amended: no delay before the first pipeline invocation of the run or
\* session (one precedes the first MetadataSource call when the identifiers
\* before it made no call), and, for a positive delay, a delay between every
\* two consecutive MetadataSource calls.
C9_DelayPlacement ==
    /\ \A i \in Positions("sleep") : \E j \in Positions("invoke") : j < i
    /\ SleepBetweenCalls
C9_Witness ==
    /\ mode = "hid" /\ Delay > 0
    /\ Cardinality(Positions("call")) = 2
    /\ Cardinality(Positions("sleep")) = 1

\* C10: a batch of k >= 1 identifiers with a positive delay d sleeps d before
\* each of the identifiers 2..k, so by the final write the delays add up to
\* at least (k-1)*d.
C10_TotalDelay ==
    (mode = "batch" /\ Delay > 0) =>
        /\ pc = "resolve" => total_delay = (processed_count - 1) * Delay
        /\ (pc = "done" /\ write_result \in {"ok", "failed"}) =>
              total_delay >= (Len(raw_isbns) - 1) * Delay
C10_Witness ==
    /\ mode = "batch" /\ pc = "done" /\ write_result = "ok"
    /\ Delay > 0
    /\ Len(raw_isbns) = 2
    /\ total_delay = Delay

\* C11: in any run the destination is written at most once, by the persist
\* step that follows the end of the input loop, and nothing is resolved,
\* slept or read after that write; the destination is read at most once, only
\* by an interactive run and before its first input() call; a batch run
\* never reads it.
C11_StoreAccess ==
    [][/\ (Positions("write")' # Positions("write") \/ dest' # dest) =>
            /\ pc = "persist" /\ pc' = "done"
            /\ Positions("write") = {}
            /\ timeline' = Append(timeline, "write")
       /\ Positions("write") # {} => timeline' = timeline /\ pc' = pc
       /\ Positions("load")' # Positions("load") =>
            /\ mode = "hid" /\ pc = "start"
            /\ timeline = <<>> /\ input_kind = "none" /\ processed_count = 0
            /\ pc' = "input"
      ]_vars
C11_Witness ==
    /\ mode = "hid" /\ pc = "done"
    /\ Positions("load") = {1}
    /\ Cardinality(Positions("invoke")) = 2
    /\ Positions("write") = {Len(timeline)}

\* C12: an interactive run whose destination does not exist starts with an
\* empty prior set and no warning; one whose destination exists but cannot be
\* read, or lacks the expected sheet, starts with an empty prior set and a
\* warning; the load never ends the run: a run that crashed had accepted
\* input first.
Prior ==
    IF pc = "done"
    THEN SubSeq(bibliography_data, 1, Len(bibliography_data) - Len(scanned_items_session))
    ELSE bibliography_data
C12_PriorLoadSoft ==
    (mode = "hid" /\ pc # "start") =>
        /\ pc = "crashed" => processed_count >= 1
        /\ ~dest_at_start.exists => Prior = <<>> /\ ~load_warning
        /\ dest_at_start.state \in {"corrupt", "no_sheet"} => Prior = <<>> /\ load_warning
C12_Witness ==
    /\ mode = "hid" /\ pc = "done"
    /\ dest_at_start.state = "no_sheet"
    /\ load_warning
    /\ Len(scanned_items_session) = 1
    /\ write_result = "ok"
    /\ dest.records = scanned_items_session

\* C13: a scanned line that is empty after stripping leaves the processed,
\* success and failure counters, the session records, the MetadataSource
\* calls and the delays as they were, and the loop waits for the next line.
EmptyLineRead == mode = "hid" /\ pc = "input" /\ input_kind' = "line" /\ isbn_raw' = <<>>
C13_EmptyLineIgnored ==
    [][EmptyLineRead =>
          /\ pc' = "input"
          /\ UNCHANGED <<processed_count, success_count, failure_count,
                         scanned_items_session, bibliography_data, invocations,
                         timeline, total_delay, exit_reason, crash>>
      ]_vars
C13_Witness ==
    /\ mode = "hid" /\ pc = "input"
    /\ input_kind = "line" /\ isbn_raw = <<>>
    /\ processed_count = 1 /\ Len(scanned_items_session) = 1
    /\ Cardinality(Positions("call")) = 1

\* C14: fetch_book_data_google answers every transport-layer failure (an
\* exception of requests: connection error, timeout, HTTP error status; a body
\* that is no JSON; a JSON body that is no object) with None and lets no
\* exception leave.
TransportFailure(http) == http.kind # "ok" \/ http.data.t # "dict"
C14_FetchFailuresAbsent ==
    (call.fn = "fetch_book_data_google" /\ call.done /\ TransportFailure(call.http)) =>
        call.result.exc = "" /\ call.result.val = None

\* the applications of process_single_isbn in which the source returned a
\* metadata record, and what the formatter made of it
ProcessDone == call.fn = "process_single_isbn" /\ call.done /\ call.result.exc = ""
Fetched == fetch_book_data_google(normalize_isbn(call.isbn), None, call.http)
MetadataPresent ==
    /\ ProcessDone
    /\ ~IsInvalid(call.isbn)
    /\ lower(call.preferred_api) = GOOGLE
    /\ Fetched.exc = "" /\ Truthy(Fetched.val)
Formatted == format_book_data(Fetched.val, GOOGLE)

\* C15: when metadata is present and the formatted record has neither ISBN-10
\* nor ISBN-13, the returned record has the normalized input in the field of
\* its classification, and for an ISBN-10 input also to_isbn13(input) as
\* ISBN-13; when the formatter produced one of the two, both fields are as the
\* formatter left them.
C15_Backfill ==
    MetadataPresent =>
        LET n == normalize_isbn(call.isbn)
            val == call.result.val
        IN IF ~Truthy(Formatted["ISBN-10"]) /\ ~Truthy(Formatted["ISBN-13"])
           THEN /\ is_valid_isbn13(call.isbn) =>
                     val["ISBN-13"] = Str(n) /\ val["ISBN-10"] = Formatted["ISBN-10"]
                /\ is_valid_isbn10(call.isbn) =>
                     val["ISBN-10"] = Str(n) /\ val["ISBN-13"] = to_isbn13(call.isbn)
           ELSE /\ val["ISBN-10"] = Formatted["ISBN-10"]
                /\ val["ISBN-13"] = Formatted["ISBN-13"]
C15_Witness ==
    /\ MetadataPresent
    /\ call.isbn = H10 /\ call.http.data = DocFoundNoIds
    /\ call.result.val["Input ISBN"] = Str(H10)
    /\ call.result.val["ISBN-10"] = Str(<<"0", "3", "0", "6", "4", "0", "6", "1", "5", "2">>)
    /\ call.result.val["ISBN-13"] = Str(V13)
    /\ call.result.val["Title"] = Str(<<"T">>)

\* C16: for a metadata record without 'volumeInfo', or whose 'volumeInfo' or
\* one of its sub-fields (industryIdentifiers, imageLinks) has the wrong
\* shape, format_book_data returns a record with a non-empty Error and every
\* other bibliographic field None.
WrongShapeField(vi) ==
    \/ /\ "industryIdentifiers" \in DOMAIN vi.v
       /\ LET ids == vi.v["industryIdentifiers"]
          IN ids.t # "list" \/ \E i \in DOMAIN ids.v : ids.v[i].t # "dict"
    \/ "imageLinks" \in DOMAIN vi.v /\ vi.v["imageLinks"].t # "dict"
LacksSubstructure(m) ==
    /\ m.t = "dict"
    /\ \/ "volumeInfo" \notin DOMAIN m.v
       \/ m.v["volumeInfo"].t # "dict"
       \/ WrongShapeField(m.v["volumeInfo"])
C16_FormatterTolerance ==
    (call.fn = "format_book_data" /\ call.done /\ LacksSubstructure(call.api_response)) =>
        /\ call.result.exc = ""
        /\ Truthy(call.result.val["Error"])
        /\ \A k \in FormattedKeys \ {"Error", "Source API"} : call.result.val[k] = None

\* C17: when the identifier is valid and the queried source returns nothing,
\* process_single_isbn returns a record of exactly two fields: Input ISBN, the
\* raw input, and Error, which names the query type (ISBN-10 or ISBN-13) and
\* ends with the queried identifier.
SourceAbsent ==
    /\ ProcessDone
    /\ ~IsInvalid(call.isbn)
    /\ lower(call.preferred_api) = GOOGLE
    /\ Fetched.exc = "" /\ ~Truthy(Fetched.val)
C17_NotFoundRecord ==
    SourceAbsent =>
        LET val == call.result.val
            n == normalize_isbn(call.isbn)
            type == IF is_valid_isbn13(call.isbn) THEN "ISBN-13" ELSE "ISBN-10"
        IN /\ DOMAIN val = {"Input ISBN", "Error"}
           /\ val["Input ISBN"] = Str(call.isbn)
           /\ val["Error"].t = "str"
           /\ LET e == val["Error"].v
              IN /\ \E i \in DOMAIN e : e[i] = type
                 /\ Len(e) > Len(n)
                 /\ SubSeq(e, Len(e) - Len(n) + 1, Len(e)) = n
C17_Witness ==
    /\ SourceAbsent
    /\ call.isbn = X10 /\ call.http.kind = "Timeout"
    /\ call.result.val =
          ("Input ISBN" :> Str(X10))
          @@ ("Error" :> Str(<<"No data found by ">> \o GOOGLE \o <<" API for ", "ISBN-10", " ">>
                             \o <<"0", "8", "0", "4", "4", "2", "9", "5", "7", "X">>))

\* C18: the identifier process_single_isbn passes to the source is the
\* normalized raw input (no hyphen, no space, upper case): a valid ISBN-13 as
\* its 13 digits, a valid ISBN-10 as its 10 characters, not converted to
\* ISBN-13.
C18_QueryIsNormalized ==
    (call.fn = "process_single_isbn" /\ call.done) =>
        \A i \in DOMAIN call.result.queries :
            LET q == call.result.queries[i] IN
            /\ q = normalize_isbn(call.isbn)
            /\ \A j \in DOMAIN q : q[j] \in Digits \cup {"X"}
            /\ is_valid_isbn13(call.isbn) => Len(q) = 13
            /\ is_valid_isbn10(call.isbn) => Len(q) = 10
C18_Witness ==
    /\ call.fn = "process_single_isbn" /\ call.done
    /\ call.isbn = H10
    /\ call.http.data = DocFound
    /\ call.result.exc = ""
    /\ call.result.queries = <<(<<"0", "3", "0", "6", "4", "0", "6", "1", "5", "2">>)>>
    /\ call.result.val["ISBN-13"] = Str(V13)

\* C19: every scan adds one record and no record is updated, merged or
\* removed: in the set an interactive run writes, each scanned identifier has
\* as many records as it had in the prior set plus the number of times it was
\* scanned in the session.
CountOf(records, x) ==
    Cardinality({i \in DOMAIN records : records[i]["Input ISBN"] = Str(x)})
Scanned == [i \in DOMAIN invocations |-> ("Input ISBN" :> Str(invocations[i].isbn_raw))]
C19_NoDeduplication ==
    (mode = "hid" /\ pc = "done" /\ write_result = "ok") =>
        \A x \in {invocations[i].isbn_raw : i \in DOMAIN invocations} :
            CountOf(dest.records, x)
                = CountOf(dest_at_start.records, x) + CountOf(Scanned, x)

\* C20: when the batch input file is not found, the read yields no
\* identifier and the run ends there: no pipeline invocation, no
\* MetadataSource call, no delay, and the destination is not written.
C20_BatchAbortOnMissingInput ==
    (mode = "batch" /\ input_kind = "missing") =>
        /\ raw_isbns = <<>>
        /\ pc = "done" /\ crash = ""
        /\ invocations = <<>> /\ processed_count = 0
        /\ timeline = <<"read_input">>
        /\ total_delay = 0
        /\ write_result = "none" /\ dest = dest_at_start
C20_Witness ==
    /\ mode = "batch" /\ input_kind = "missing" /\ pc = "done"
    /\ dest_at_start = FilledStore /\ dest = FilledStore

\* C21: load_config never raises; with a configuration file that is missing,
\* unreadable or no JSON the configuration is the defaults; with a readable
\* file that does not set rate_limit_delay the delay is the default, 1 second.
C21_ConfigFallback ==
    (call.fn = "load_config" /\ call.done) =>
        /\ call.result.exc = ""
        /\ call.file.kind \in {"missing", "unreadable", "invalid_json"} =>
              CONFIG = DefaultConfig
        /\ (/\ call.file.kind = "ok" /\ call.file.data.t = "dict"
            /\ "rate_limit_delay" \notin DOMAIN call.file.data.v) =>
              CONFIG.rate_limit_delay = 1
C21_Witness ==
    /\ call.fn = "load_config" /\ call.done
    /\ call.file = [kind |-> "ok",
                    data |-> Dict([api_source_priority |-> List(<<Str(OPENLIBRARY)>>)])]
    /\ CONFIG.api_source_priority = <<OPENLIBRARY>>
    /\ CONFIG.rate_limit_delay = 1

\* C22: when the final write to the destination fails, the failure is
\* reported, the run goes on to its summary without an exception, and the
\* processed / success / failure counters keep the values they had when the
\* input loop ended.
C22_PersistFailureKeepsCounters ==
    [][(pc = "persist" /\ write_result' = "failed") =>
          /\ pc' = "done" /\ crash' = ""
          /\ UNCHANGED <<processed_count, success_count, failure_count>>]_vars
C22_Witness ==
    /\ mode = "batch" /\ pc = "done" /\ write_result = "failed" /\ crash = ""
    /\ processed_count = 2 /\ success_count = 1 /\ failure_count = 1

\* ------------------------------------------------- claims on the codec
\* what an application of the codec was given and what it returned
Applied(fn) == call.fn = fn /\ call.done
Given == call.isbn
Got == call.result.val

\* an identifier as the two formats define it: ten characters, nine digits
\* and a digit or "X", weighted sum divisible by 11; thirteen digits, the
\* last one the check digit of the first twelve
RECURSIVE SumTo(_, _)
SumTo(terms, n) == IF n = 0 THEN 0 ELSE SumTo(terms, n - 1) + terms[n]
Weighted10(v) == SumTo([i \in 1..9 |-> (11 - i) * DigitVal[v[i]]], 9)
Weighted13(v) == SumTo([i \in 1..12 |-> (IF i % 2 = 1 THEN 1 ELSE 3) * DigitVal[v[i]]], 12)
Check13(v) == (10 - (Weighted13(v) % 10)) % 10
IsIsbn10(v) ==
    /\ Len(v) = 10
    /\ \A i \in 1..9 : v[i] \in Digits
    /\ v[10] \in Digits \cup {"X"}
    /\ (Weighted10(v) + (IF v[10] = "X" THEN 10 ELSE DigitVal[v[10]])) % 11 = 0
IsIsbn13(v) ==
    /\ Len(v) = 13
    /\ \A i \in 1..13 : v[i] \in Digits
    /\ Check13(v) = DigitVal[v[13]]
Is978(v) == Len(v) >= 3 /\ SubSeq(v, 1, 3) = <<"9", "7", "8">>

\* C23: for every valid ISBN-10 v in normalized form to_10(to_13(v)) = v,
\* and for every valid ISBN-13 v in normalized form that starts with "978"
\* to_13(to_10(v)) = v.
C23_RoundTrip ==
    /\ (Applied("to_isbn13") /\ IsIsbn10(Given)) =>
          /\ Got.t = "str"
          /\ to_isbn10(Got.v) = Str(Given)
    /\ (Applied("to_isbn10") /\ IsIsbn13(Given) /\ Is978(Given)) =>
          /\ Got.t = "str"
          /\ to_isbn13(Got.v) = Str(Given)
C23_Witness ==
    /\ Applied("to_isbn10") /\ Given = C13
    /\ Got = Str(C10) /\ to_isbn13(C10) = Str(C13)

\* the argument is v with the adjacent digits at i and i+1, which differ, swapped
SwappedAt(v, i) ==
    /\ v[i] \in Digits /\ v[i + 1] \in Digits /\ v[i] # v[i + 1]
    /\ Given = Swap(v, i)
DifferBy5(v, i) ==
    DigitVal[v[i]] - DigitVal[v[i + 1]] \in {5, 0 - 5}

\* C24 as stated: for every valid ISBN-10 and every valid ISBN-13, swapping
\* two adjacent digits that differ yields an identifier that is_valid_10
\* (respectively is_valid_13) rejects.
C24_TranspositionRejected ==
    /\ Applied("is_valid_isbn10") =>
          \A v \in Known10 : \A i \in 1..9 :
              (IsIsbn10(v) /\ SwappedAt(v, i)) => Got = Bool(FALSE)
    /\ Applied("is_valid_isbn13") =>
          \A v \in Known13 : \A i \in 1..12 :
              (IsIsbn13(v) /\ SwappedAt(v, i)) => Got = Bool(FALSE)

\* C24: for every valid ISBN-10, swapping two adjacent digits that differ
\* yields an identifier is_valid_10 rejects; for every valid ISBN-13,
\* swapping two adjacent digits that differ, and not by 5, yields an
\* identifier is_valid_13 rejects (weights 1 and 3 leave a difference of 5
\* unseen modulo 10).
C24_TranspositionRejectedUnlessBy5 ==
    /\ Applied("is_valid_isbn10") =>
          \A v \in Known10 : \A i \in 1..9 :
              (IsIsbn10(v) /\ SwappedAt(v, i)) => Got = Bool(FALSE)
    /\ Applied("is_valid_isbn13") =>
          \A v \in Known13 : \A i \in 1..12 :
              (IsIsbn13(v) /\ SwappedAt(v, i) /\ ~DifferBy5(v, i)) => Got = Bool(FALSE)
C24_Witness ==
    /\ Applied("is_valid_isbn13")
    /\ IsIsbn13(B13) /\ SwappedAt(B13, 12) /\ ~DifferBy5(B13, 12)
    /\ Got = Bool(FALSE)

\* C25: normalize removes every hyphen and every whitespace character
\* (space, tab, newline, ...) and upper-cases the rest: the result holds no
\* hyphen, no whitespace character and no lowercase letter, and is otherwise
\* the argument's characters in their original order.
IsLower(c) == \E i \in DOMAIN LowerLetters : LowerLetters[i] = c
C25_NormalizeStripsAllWhitespace ==
    Applied("normalize_isbn") =>
        /\ \A i \in DOMAIN Got.v :
              Got.v[i] # "-" /\ Got.v[i] \notin Whitespace /\ ~IsLower(Got.v[i])
        /\ Got.v = upper(SelectSeq(Given, LAMBDA c : c # "-" /\ c \notin Whitespace))

\* C26: normalize is idempotent: normalizing the result of normalize
\* returns that result.
C26_NormalizeIdempotent ==
    Applied("normalize_isbn") => normalize_isbn(Got.v) = Got.v
C26_Witness ==
    /\ Applied("normalize_isbn")
    /\ Given = <<"9", "-", "7", "8", "0", "-", "3", "0", "6", "4", "0", "6", "1", "5", "7">>
    /\ Got = Str(V13) /\ normalize_isbn(Got.v) = V13

\* C27: to_10 returns no result for every argument that is not a valid
\* ISBN-13 and for every valid ISBN-13 that does not start with "978"; it
\* returns a result for every valid ISBN-13 that starts with "978".
C27_To10Convertibility ==
    Applied("to_isbn10") =>
        LET n == normalize_isbn(Given)
        IN (Got # None) <=> (IsIsbn13(n) /\ Is978(n))

\* C28: to_13 returns no result exactly when its argument is not a valid
\* ISBN-10; for a valid ISBN-10 it returns "978", then the first nine
\* characters of the normalized argument, then the ISBN-13 check digit of
\* those twelve digits.
C28_To13Result ==
    Applied("to_isbn13") =>
        LET n == normalize_isbn(Given)
            stem == <<"9", "7", "8">> \o SubSeq(n, 1, 9)
        IN IF IsIsbn10(n) THEN Got = Str(stem \o <<DigitChar[Check13(stem)]>>)
           ELSE Got = None

\* C29: is_valid_10 accepts s exactly when normalize(s) is nine digits
\* followed by a digit or "X" and the weighted sum (weights 10 down to 2,
\* plus 10 for "X" or the value of the tenth character) is divisible by 11.
C29_IsValid10Exact ==
    Applied("is_valid_isbn10") => Got = Bool(IsIsbn10(normalize_isbn(Given)))

\* C30: is_valid_13 accepts s exactly when normalize(s) is thirteen digits
\* and the thirteenth is (10 - (sum of the first twelve weighted 1, 3, 1,
\* 3, ...) mod 10) mod 10, whatever the prefix.
C30_IsValid13Exact ==
    Applied("is_valid_isbn13") => Got = Bool(IsIsbn13(normalize_isbn(Given)))

\* C31: at the end of every loop iteration of a batch or interactive run,
\* processed = success + failure = number of records accumulated in this
\* run, and the failures are exactly the records whose Error field is
\* non-empty, an Error set by the formatter on present metadata included.
RunRecords == IF mode = "batch" THEN bibliography_data ELSE scanned_items_session
ErrorNonEmpty(record) ==
    /\ "Error" \in DOMAIN record
    /\ record["Error"].t = "str" /\ record["Error"].v # <<>>
IterationEnded == mode \in {"batch", "hid"} /\ pc \in {"loop", "input", "persist", "done"}
C31_CounterInvariant ==
    IterationEnded =>
        /\ processed_count = success_count + failure_count
        /\ processed_count = Len(RunRecords)
        /\ failure_count = Cardinality({i \in DOMAIN RunRecords : ErrorNonEmpty(RunRecords[i])})
C31_Witness ==
    /\ mode = "hid" /\ pc = "input"
    /\ processed_count = 2 /\ success_count = 1 /\ failure_count = 1
    /\ Len(invocations) = 2 /\ invocations[2].queries # <<>>
    /\ scanned_items_session[2]["Error"] = Str(<<"API response missing 'volumeInfo'.">>)

\* C32: for every nine-digit stem exactly one of the eleven characters
\* "0".."9", "X" makes the ten-character identifier pass is_valid_10, so two
\* identifiers that differ only in the tenth character are never both valid.
CheckCharacters == Digits \cup {"X"}
TenCharacters(v) ==
    /\ Len(v) = 10
    /\ \A i \in 1..9 : v[i] \in Digits
    /\ v[10] \in CheckCharacters
PassingChecks(v) == {c \in CheckCharacters : is_valid_isbn10([v EXCEPT ![10] = c])}
ClassTen == is_valid_isbn10(normalize_isbn(Given))
ClassThirteen == is_valid_isbn13(normalize_isbn(Given))
ClassTenFirst ==
    IF ClassTen THEN "ISBN-10" ELSE IF ClassThirteen THEN "ISBN-13" ELSE "Invalid"
C33_ClassificationExclusive ==
    /\ (Applied("is_valid_isbn10") /\ Got = Bool(TRUE)) => ~is_valid_isbn13(Given)
    /\ (Applied("is_valid_isbn13") /\ Got = Bool(TRUE)) => ~is_valid_isbn10(Given)
    /\ Applied("classification") =>
          /\ ~(ClassTen /\ ClassThirteen)
          /\ Got = Str(<<ClassTenFirst>>)
C33_Witness ==
    /\ Applied("classification") /\ Given = PAD10
    /\ Got = Str(<<"ISBN-10">>) /\ ClassTen /\ ~ClassThirteen

\* C34: whenever to_13 returns a result it is a 13-digit string starting
\* with "978" that is_valid_13 accepts, and whenever to_10 returns a result
\* it is a 10-character string that is_valid_10 accepts.
C34_ConversionsValid ==
    /\ (Applied("to_isbn13") /\ Got # None) =>
          /\ Len(Got.v) = 13 /\ \A i \in DOMAIN Got.v : Got.v[i] \in Digits
          /\ Is978(Got.v)
          /\ is_valid_isbn13(Got.v)
    /\ (Applied("to_isbn10") /\ Got # None) =>
          /\ Len(Got.v) = 10
          /\ is_valid_isbn10(Got.v)

====
